---- MODULE Spec2Model ----
(***************************************************************************)
(* Order queue and wait-time estimation of the FastFood backend.           *)
(*                                                                         *)
(* State: the Order collection, each Restaurant document's queue, menu and *)
(* lastPreparationStart, the server clock, and the position of every       *)
(* request handler that is between two of its storage operations.          *)
(* Every storage operation (one awaited mongoose call) is one step.        *)
(***************************************************************************)
EXTENDS Integers, Sequences, FiniteSets, TLC

\* ------------------------------------------------------------------ bounds
MaxOrders == 2          \* order ids handed out in one behaviour
MaxItems == 2           \* items in one newOrder request body
MaxTicks == 4           \* clock readings after the first
TickMs == 20000         \* granularity of the modelled clock, milliseconds
MaxInFlight == 2        \* request handlers that overlap

\* --------------------------------------------------------------- constants
MsPerMinute == 60000    \* (60 * 1000)
MinAmount == 1          \* Order.amount min validator

RECEIVED == "received"
PREPARING == "preparing"
READY == "ready"
COMPLETED == "completed"
ORDER_STATES == {RECEIVED, PREPARING, READY, COMPLETED}

OrderIds == 1..MaxOrders
Restaurants == {1, 2}            \* existing Restaurant documents; owner r owns r
RestaurantIds == {1, 2, 3}       \* ids a client can send; 3 matches no document
Customers == {1, 2}
Dishes == {1, 2}
Calls == {1, 2}                  \* advanceQueue requests that may overlap

NoOrder == [state |-> "none"]    \* no document with that _id
NULL == -1                       \* lastPreparationStart default: null
NoId == 0                        \* undefined orderId / empty queue[0]

VARIABLES
    orders,        \* Order collection: id -> document or NoOrder
    nextId,        \* next fresh ObjectId
    queue,         \* Restaurant.queue per restaurant
    lps,           \* Restaurant.lastPreparationStart per restaurant
    menu,          \* Restaurant.menu per restaurant: sequence of entries
    users,         \* customer User documents that exist
    now,           \* Date.now(), milliseconds
    skipTx,        \* process.env.SKIP_TRANSACTIONS === 'true'
    adv,           \* advanceQueue requests in flight, per call slot
    ord,           \* the newOrder request in flight (sequential-writes mode)
    deact,         \* the deactivateAccount request in flight
    est,           \* last reply of the wait estimators
    pick,          \* reply of confirmPickup being sent
    gate,          \* reply of a middleware that turned a request away
    view,          \* reply of getQueue being sent
    prepStart      \* per order: Date.now() when it was moved to preparing

vars == <<orders, nextId, queue, lps, menu, users, now, skipTx, adv, ord, deact, est, pick,
          gate, view, prepStart>>

\* ----------------------------------------------------------------- helpers
Exists(o) == o \in OrderIds /\ orders[o] # NoOrder

InSeq(s, x) == \E i \in 1..Len(s) : s[i] = x

\* $pull: removes every element that is in ids
RECURSIVE Pull(_, _)
Pull(s, ids) ==
    IF s = <<>> THEN <<>>
    ELSE IF Head(s) \in ids THEN Pull(Tail(s), ids)
    ELSE <<Head(s)>> \o Pull(Tail(s), ids)

\* the last entry in place of the first
QueueLast(q) == IF q = <<>> THEN NoId ELSE q[Len(q)]

\* restaurant.queue[0], undefined on an empty queue
QueueHead(q) == IF q = <<>> THEN NoId ELSE q[1]


\* ------------------------------------------------------------ initial state
\* two owners have registered their restaurants (addRestaurant: no menu, no
\* queue, lastPreparationStart null) and two customers have signed up
MenuPrice == 500        \* the price of a dish on the modelled menus, in cents

MenuEntry(d, p) == [dish |-> d, price |-> MenuPrice, preparationTime |-> p]

\* orderId: req.body.orderId; issued: the target's state when the handler
\* began; did: the state it moved the target out of
AdvIdle == [pc |-> "idle", owner |-> 0, orderId |-> NoId, target |-> NoId,
            isHeadOfQueue |-> FALSE,
            seen |-> "none", status |-> 0, msg |-> "", issued |-> "none", did |-> "none"]
OrdIdle == [pc |-> "idle", customer |-> 0, items |-> <<>>, id |-> NoId]
DeactIdle == [pc |-> "idle", customer |-> 0, orderIds |-> {}]
NoEst == [by |-> "none", order |-> NoId, at |-> 0, value |-> 0]
NoPick == [customer |-> 0, id |-> NoId, status |-> 0, msg |-> ""]
NoToken == [userId |-> 0, type |-> "none"]        \* no token cookie
BadToken == [userId |-> 0, type |-> "invalid"]    \* jwt.verify throws
NoGate == [route |-> "", token |-> NoToken, status |-> ""]
NoView == [owner |-> 0, status |-> 0, queue |-> <<>>]

\* skip: whether the server was started with SKIP_TRANSACTIONS='true'
InitEnv(skip) ==
    /\ orders = [o \in OrderIds |-> NoOrder]
    /\ nextId = 1
    /\ queue = [r \in Restaurants |-> <<>>]
    /\ lps = [r \in Restaurants |-> NULL]
    /\ menu = [r \in Restaurants |-> <<>>]
    /\ users = Customers
    /\ now = 0
    /\ skipTx = skip
    /\ adv = [c \in Calls |-> AdvIdle]
    /\ ord = OrdIdle
    /\ deact = DeactIdle
    /\ est = NoEst
    /\ pick = NoPick
    /\ gate = NoGate
    /\ view = NoView
    /\ prepStart = [o \in OrderIds |-> NULL]

Init == InitEnv(FALSE)

InitSkip == InitEnv(TRUE)

\* ------------------------------------------------------------- advanceQueue
AdvRunning(c) == adv[c].pc # "idle"

\* the handler's locals are dropped once it has its reply
AdvDone(c, st, m) ==
    adv' = [adv EXCEPT ![c] = [AdvIdle EXCEPT !.pc = "done", !.status = st, !.msg = m,
                                              !.orderId = adv[c].orderId,
                                              !.target = adv[c].target,
                                              !.issued = adv[c].issued,
                                              !.did = adv[c].did]]

\* restaurant.queue[0]?.toString() === targetOrderId.toString()
IsHead(q, targetOrderId) == QueueHead(q) = targetOrderId

\* Restaurant.findOne({owner}).select('_id queue'), 404 when the caller owns
\* no restaurant; orderId || restaurant.queue[0]
AdvStart(c, r, orderId) ==
    /\ ~AdvRunning(c)
    /\ \A b \in Calls : b < c => AdvRunning(b)
    /\ IF r \notin Restaurants
       THEN adv' = [adv EXCEPT ![c] = [AdvIdle EXCEPT !.pc = "done", !.owner = r,
                                                      !.orderId = orderId,
                                                      !.status = 404,
                                                      !.msg = "Restaurant not found."]]
       ELSE
       LET targetOrderId == IF orderId # NoId THEN orderId ELSE QueueHead(queue[r])
           fresh == [AdvIdle EXCEPT !.owner = r, !.orderId = orderId,
                                    !.target = targetOrderId,
                                    !.isHeadOfQueue = IsHead(queue[r], targetOrderId),
                                    !.issued = IF Exists(targetOrderId)
                                               THEN orders[targetOrderId].state ELSE "none"]
       IN  IF targetOrderId = NoId
           THEN adv' = [adv EXCEPT ![c] = [fresh EXCEPT !.pc = "done", !.status = 200,
                                                        !.msg = "Queue is empty."]]
           ELSE adv' = [adv EXCEPT ![c] = [fresh EXCEPT !.pc = "findOrder"]]
    /\ UNCHANGED <<orders, nextId, queue, lps, menu, users, now, skipTx, ord, deact, est, pick, gate, view, prepStart>>

\* any order on record, whichever restaurant it is of
BelongsAny(t, r) == Exists(t)

\* orderToAdvance && String(orderToAdvance.restaurant) === String(restaurant._id)
Belongs(t, r) == Exists(t) /\ orders[t].restaurant = r

\* every state taken for one the handler moves an order out of
AdvanceableAny(st) == TRUE

\* the states the handler has a branch for: received (line 185), preparing (197)
Advanceable(st) == st \in {RECEIVED, PREPARING}

\* Order.findById(targetOrderId) and the ownership check
AdvFindOrder(c) ==
    /\ adv[c].pc = "findOrder"
    /\ LET t == adv[c].target
       IN  IF ~Belongs(t, adv[c].owner)
           THEN AdvDone(c, 404, "Order not found in this restaurant.")
           ELSE IF Advanceable(orders[t].state)
           THEN adv' = [adv EXCEPT ![c].pc = "update", ![c].seen = orders[t].state]
           ELSE AdvDone(c, 200, "Queue advanced successfully.")
    /\ UNCHANGED <<orders, nextId, queue, lps, menu, users, now, skipTx, ord, deact, est, pick, gate, view, prepStart>>

\* an update by _id alone, whatever state the order is in by now
UpdateMatchesAny(o, expected) == Exists(o)

\* the filter of Order.findOneAndUpdate({_id, state: expected}, ...)
UpdateMatches(o, expected) == Exists(o) /\ orders[o].state = expected

NextState(s) == IF s = RECEIVED THEN PREPARING ELSE READY

\* the handler without its "if (!updated) return": it goes on to its second
\* write whether or not the update matched
AdvUpdateBlind(c) ==
    /\ adv[c].pc = "update"
    /\ orders' = IF UpdateMatches(adv[c].target, adv[c].seen)
                 THEN [orders EXCEPT ![adv[c].target].state = NextState(adv[c].seen)]
                 ELSE orders
    /\ adv' = [adv EXCEPT ![c].pc = IF adv[c].seen = PREPARING THEN "pull" ELSE "setStart",
                          ![c].did = adv[c].seen]
    /\ UNCHANGED <<nextId, queue, lps, menu, users, now, skipTx, ord, deact, est, pick, gate, view, prepStart>>

\* Order.findOneAndUpdate({_id, state: seen}, {$set: {state: next}}); prepStart
\* records when the update to preparing was applied
AdvUpdate(c) ==
    /\ adv[c].pc = "update"
    /\ LET t == adv[c].target
           r == adv[c].owner
       IN  IF ~UpdateMatches(t, adv[c].seen)
           THEN /\ AdvDone(c, 409, "Order state changed concurrently.")
                /\ UNCHANGED orders
           ELSE /\ orders' = [orders EXCEPT ![t].state = NextState(adv[c].seen)]
                /\ IF adv[c].seen = PREPARING
                   THEN adv' = [adv EXCEPT ![c].pc = "pull", ![c].did = adv[c].seen]
                   ELSE IF adv[c].isHeadOfQueue
                   THEN adv' = [adv EXCEPT ![c].pc = "setStart", ![c].did = adv[c].seen]
                   ELSE adv' = [adv EXCEPT ![c] =
                                   [AdvIdle EXCEPT !.pc = "done", !.status = 200,
                                                   !.msg = "Queue advanced successfully.",
                                                   !.orderId = adv[c].orderId,
                                                   !.target = t, !.issued = adv[c].issued,
                                                   !.did = adv[c].seen]]
    /\ prepStart' = IF UpdateMatches(adv[c].target, adv[c].seen) /\ adv[c].seen = RECEIVED
                    THEN [prepStart EXCEPT ![adv[c].target] = now]
                    ELSE prepStart
    /\ UNCHANGED <<nextId, queue, lps, menu, users, now, skipTx, ord, deact, est, pick, gate, view>>

\* Restaurant.findByIdAndUpdate(_id, {lastPreparationStart: Date.now()})
AdvSetStart(c) ==
    /\ adv[c].pc = "setStart"
    /\ lps' = [lps EXCEPT ![adv[c].owner] = now]
    /\ AdvDone(c, 200, "Queue advanced successfully.")
    /\ UNCHANGED <<orders, nextId, queue, menu, users, now, skipTx, ord, deact, est, pick, gate, view, prepStart>>

\* Restaurant.findByIdAndUpdate(_id, {$pull: {queue: targetOrderId}})
AdvPull(c) ==
    /\ adv[c].pc = "pull"
    /\ queue' = [queue EXCEPT ![adv[c].owner] = Pull(@, {adv[c].target})]
    /\ AdvDone(c, 200, "Queue advanced successfully.")
    /\ UNCHANGED <<orders, nextId, lps, menu, users, now, skipTx, ord, deact, est, pick, gate, view, prepStart>>

\* res.json(...): the reply is sent and the handler ends
AdvReturn(c) ==
    /\ adv[c].pc = "done"
    /\ adv' = [adv EXCEPT ![c] = AdvIdle]
    /\ UNCHANGED <<orders, nextId, queue, lps, menu, users, now, skipTx, ord, deact, est, pick, gate, view, prepStart>>

\* ----------------------------------------------------------------- newOrder
\* new Order({customer, restaurant, dish, amount, price, state: 'received'}),
\* each but customer and state as the request body gives it
NewDoc(cust, item) ==
    [customer |-> cust, restaurant |-> item.restaurant, dish |-> item.dish,
     amount |-> item.amount, price |-> item.price, state |-> RECEIVED]

\* newOrder.save() runs the schema validators: amount min 1
SaveSucceeds(item) == item.amount >= MinAmount

\* the id put at the front
PushFront(q, r, id) == IF r \in Restaurants THEN [q EXCEPT ![r] = <<id>> \o @] ELSE q

\* the id appended twice
PushTwice(q, r, id) ==
    IF r \in Restaurants THEN [q EXCEPT ![r] = Append(Append(@, id), id)] ELSE q

\* Restaurant.findByIdAndUpdate(id, {$push: {queue: _id}}): null, and no write,
\* when no restaurant has that id
Push(q, r, id) == IF r \in Restaurants THEN [q EXCEPT ![r] = Append(@, id)] ELSE q

RECURSIVE SaveAll(_, _, _, _)
SaveAll(os, cust, items, id) ==
    IF items = <<>> THEN os
    ELSE SaveAll([os EXCEPT ![id] = NewDoc(cust, Head(items))], cust, Tail(items), id + 1)

RECURSIVE PushAll(_, _, _)
PushAll(q, items, id) ==
    IF items = <<>> THEN q
    ELSE PushAll(Push(q, Head(items).restaurant, id), Tail(items), id + 1)

\* the whole handler inside one transaction: its writes become visible at
\* commitTransaction, or never when a save throws (abortTransaction)
NewOrderTx(cust, body) ==
    /\ ~skipTx
    /\ IF \A i \in 1..Len(body) : SaveSucceeds(body[i])
       THEN /\ nextId + Len(body) - 1 <= MaxOrders
            /\ orders' = SaveAll(orders, cust, body, nextId)
            /\ queue' = PushAll(queue, body, nextId)
            /\ nextId' = nextId + Len(body)
       ELSE UNCHANGED <<orders, queue, nextId>>
    /\ UNCHANGED <<lps, menu, users, now, skipTx, adv, ord, deact, est, pick, gate, view, prepStart>>

\* SKIP_TRANSACTIONS: newOrder.save() of the next item, no session
SaveItem(cust, items) ==
    IF SaveSucceeds(Head(items))
    THEN /\ nextId <= MaxOrders
         /\ orders' = [orders EXCEPT ![nextId] = NewDoc(cust, Head(items))]
         /\ nextId' = nextId + 1
         /\ ord' = [pc |-> "push", customer |-> cust, items |-> items, id |-> nextId]
    ELSE /\ ord' = OrdIdle
         /\ UNCHANGED <<orders, nextId>>

NewOrderSeq(cust, body) ==
    /\ skipTx
    /\ ord.pc = "idle"
    /\ SaveItem(cust, body)
    /\ UNCHANGED <<queue, lps, menu, users, now, skipTx, adv, deact, est, pick, gate, view, prepStart>>

NewOrderSave ==
    /\ ord.pc = "save"
    /\ SaveItem(ord.customer, ord.items)
    /\ UNCHANGED <<queue, lps, menu, users, now, skipTx, adv, deact, est, pick, gate, view, prepStart>>

NewOrderPush ==
    /\ ord.pc = "push"
    /\ queue' = Push(queue, Head(ord.items).restaurant, ord.id)
    /\ ord' = IF Tail(ord.items) = <<>> THEN OrdIdle
              ELSE [ord EXCEPT !.pc = "save", !.items = Tail(ord.items), !.id = NoId]
    /\ UNCHANGED <<orders, nextId, lps, menu, users, now, skipTx, adv, deact, est, pick, gate, view, prepStart>>

\* ------------------------------------------------------------ confirmPickup
\* The handler: Order.findOne({_id, customer}): 404 when absent, 400 unless ready; then
\* order.state = 'completed'; order.save().  Between the read and the save no
\* other handler moves an order out of ready, so the two are one step.
\* a lookup by _id alone
FindsAnyOrder(cust, id) == Exists(id)

\* Order.findOne({_id: id, customer: user.userId}) finds a document
FindsOwnOrder(cust, id) == Exists(id) /\ orders[id].customer = cust

confirmPickup(cust, id) ==
    /\ pick = NoPick
    /\ IF ~FindsOwnOrder(cust, id)
       THEN /\ pick' = [customer |-> cust, id |-> id, status |-> 404,
                        msg |-> "Order not found."]
            /\ UNCHANGED orders
       ELSE IF orders[id].state # READY
       THEN /\ pick' = [customer |-> cust, id |-> id, status |-> 400,
                        msg |-> "Order not ready for pickup."]
            /\ UNCHANGED orders
       ELSE /\ orders' = [orders EXCEPT ![id].state = COMPLETED]
            /\ pick' = [customer |-> cust, id |-> id, status |-> 200,
                        msg |-> "Order completed."]
    /\ UNCHANGED <<nextId, queue, lps, menu, users, now, skipTx, adv, ord, deact, est, gate, view, prepStart>>

\* res.json(...): the reply of confirmPickup has been sent
PickReturn ==
    /\ pick # NoPick
    /\ pick' = NoPick
    /\ UNCHANGED <<orders, nextId, queue, lps, menu, users, now, skipTx, adv, ord, deact, est, gate, view, prepStart>>

\* ----------------------------------------------------------------- getQueue
\* ids in ascending order: createdAt is Date.now() at new Order(...), and ids
\* are handed out in that order
RECURSIVE SortById(_)
SortById(S) ==
    IF S = {} THEN <<>>
    ELSE LET m == CHOOSE x \in S : \A y \in S : x <= y
         IN  <<m>> \o SortById(S \ {m})

\* $match: {restaurant, state: {$in: [received, preparing]}}; the $unwind of
\* the customer lookup drops an order whose customer has no User document
Matched(r) ==
    {o \in OrderIds : /\ Exists(o)
                      /\ orders[o].restaurant = r
                      /\ orders[o].state \in {RECEIVED, PREPARING}
                      /\ orders[o].customer \in users}

\* Order.aggregate([...]) of getQueue, as the list of the _id it returns
Aggregate(r) == SortById(Matched(r))

\* GET /queue by owner u: 404 when u owns no restaurant
getQueue(u) ==
    /\ view = NoView
    /\ view' = IF u \notin Restaurants
               THEN [owner |-> u, status |-> 404, queue |-> <<>>]
               ELSE [owner |-> u, status |-> 200, queue |-> Aggregate(u)]
    /\ UNCHANGED <<orders, nextId, queue, lps, menu, users, now, skipTx, adv, ord, deact, est,
                   pick, gate, prepStart>>

\* res.json({queue}): the reply of getQueue has been sent
ViewReturn ==
    /\ view # NoView
    /\ view' = NoView
    /\ UNCHANGED <<orders, nextId, queue, lps, menu, users, now, skipTx, adv, ord, deact, est,
                   pick, gate, prepStart>>

\* -------------------------------------------------- deactivateAccount (customer)
\* Order.find({customer, state: {$ne: 'completed'}}).select('_id')
OrdersToDelete(cust) ==
    {o \in OrderIds : Exists(o) /\ orders[o].customer = cust /\ orders[o].state # COMPLETED}

DeactFind(cust) ==
    /\ deact.pc = "idle"
    /\ cust \in users
    /\ deact' = [pc |-> IF OrdersToDelete(cust) # {} THEN "pull" ELSE "delete",
                 customer |-> cust, orderIds |-> OrdersToDelete(cust)]
    /\ UNCHANGED <<orders, nextId, queue, lps, menu, users, now, skipTx, adv, ord, est, pick, gate, view, prepStart>>

\* Restaurant.updateMany({queue: {$in: ids}}, {$pull: {queue: {$in: ids}}})
DeactPull ==
    /\ deact.pc = "pull"
    /\ queue' = [r \in Restaurants |-> Pull(queue[r], deact.orderIds)]
    /\ deact' = [deact EXCEPT !.pc = "delete"]
    /\ UNCHANGED <<orders, nextId, lps, menu, users, now, skipTx, adv, ord, est, pick, gate, view, prepStart>>

\* Order.deleteMany({_id: {$in: ids}}); CustomerData and User deleteOne
DeactDelete ==
    /\ deact.pc = "delete"
    /\ orders' = [o \in OrderIds |-> IF o \in deact.orderIds THEN NoOrder ELSE orders[o]]
    /\ users' = users \ {deact.customer}
    /\ deact' = DeactIdle
    /\ UNCHANGED <<nextId, queue, lps, menu, now, skipTx, adv, ord, est, pick, gate, view, prepStart>>

\* -------------------------------------------------------------- middleware
\* authMiddleware: 401 without a token cookie or when jwt.verify throws
authMiddleware(tok) == IF tok.type \in {"none", "invalid"} THEN "401" ELSE "next"

\* onlyCustomers: a user of another type is turned away (403)
onlyCustomers(tok) == IF tok.type # "customer" THEN "away" ELSE "next"

\* a gate that lets every authenticated user through
onlyOwnersOpen(tok) == "next"

\* onlyOwners: a user of another type is turned away (redirect or 403)
onlyOwners(tok) == IF tok.type # "owner" THEN "away" ELSE "next"

\* router.post('/order', ...), router.put('/confirmpickup/:id', ...),
\* router.get('/queue', ...), router.put('/order/update', ...)
CustomerRoutes == {"order", "confirmpickup"}

OwnerRoutes == {"queue", "order/update"}

\* the middleware in front of a route's handler, in order
Verdict(route, tok) ==
    IF authMiddleware(tok) # "next" THEN authMiddleware(tok)
    ELSE IF route \in CustomerRoutes THEN onlyCustomers(tok)
    ELSE onlyOwners(tok)

\* a middleware answers and next() is not called: the handler does not run
Rejected(route, tok) ==
    /\ gate = NoGate
    /\ Verdict(route, tok) # "next"
    /\ gate' = [route |-> route, token |-> tok, status |-> Verdict(route, tok)]
    /\ UNCHANGED <<orders, nextId, queue, lps, menu, users, now, skipTx, adv, ord, deact, est, pick, view, prepStart>>

GateReturn ==
    /\ gate # NoGate
    /\ gate' = NoGate
    /\ UNCHANGED <<orders, nextId, queue, lps, menu, users, now, skipTx, adv, ord, deact, est, pick, view, prepStart>>

\* ------------------------------------------------------------------- clock
Tick ==
    /\ now + TickMs <= MaxTicks * TickMs
    /\ now' = now + TickMs
    /\ UNCHANGED <<orders, nextId, queue, lps, menu, users, skipTx, adv, ord, deact, est, pick, gate, view, prepStart>>

\* ---------------------------------------------------------------- editMenu
\* Restaurant.findByIdAndUpdate(restaurant, {menu: newMenu}): no validators run
editMenu(r, newMenu) ==
    /\ menu' = [menu EXCEPT ![r] = newMenu]
    /\ UNCHANGED <<orders, nextId, queue, lps, users, now, skipTx, adv, ord, deact, est, pick, gate, view, prepStart>>

\* ---------------------------------------------------------- waitEstimation
Max(a, b) == IF a >= b THEN a ELSE b

RECURSIVE SumSeq(_)
SumSeq(s) == IF s = <<>> THEN 0 ELSE Head(s) + SumSeq(Tail(s))

RECURSIVE SumOver(_, _)
SumOver(f, S) ==
    IF S = {} THEN 0
    ELSE LET x == CHOOSE y \in S : TRUE IN f[x] + SumOver(f, S \ {x})

\* restaurant.queue.findIndex(id => id.toString() === orderId), one-based; 0 for -1
RECURSIVE FindIndexFrom(_, _, _)
FindIndexFrom(q, orderId, i) ==
    IF i > Len(q) THEN 0
    ELSE IF q[i] = orderId THEN i ELSE FindIndexFrom(q, orderId, i + 1)

findIndex(q, orderId) == FindIndexFrom(q, orderId, 1)

\* the $lookup pipeline: the menu entries of the order's restaurant whose dish
\* is the order's dish, as the sequence of their preparation times
MenuData(o) ==
    LET r == orders[o].restaurant
        m == IF r \in Restaurants THEN menu[r] ELSE <<>>
        hit == SelectSeq(m, LAMBDA e : e.dish = orders[o].dish)
    IN  [i \in 1..Len(hit) |-> hit[i].preparationTime]

\* the $multiply without its '$amount' factor
UnwoundOnce(o) ==
    IF MenuData(o) = <<>> THEN <<0>>
    ELSE [i \in 1..Len(MenuData(o)) |-> MenuData(o)[i]]

\* $unwind with preserveNullAndEmptyArrays, then
\* $multiply: ['$amount', {$ifNull: ['$menuData.prepTime', 0]}] per document
Unwound(o) ==
    IF MenuData(o) = <<>> THEN <<orders[o].amount * 0>>
    ELSE [i \in 1..Len(MenuData(o)) |-> orders[o].amount * MenuData(o)[i]]

\* Order.aggregate([{$match: {_id: {$in: orderIdsAhead}}}, ..., {$group: $sum}]);
\* result[0]?.totalTime || 0, in minutes
totalTime(orderIdsAhead) ==
    LET matched == {o \in OrderIds : Exists(o) /\ InSeq(orderIdsAhead, o)}
    IN  SumOver([o \in matched |-> SumSeq(Unwound(o))], matched)

\* Date.now() - new Date(lastPreparationStart).getTime(), milliseconds
Elapsed(r, t) == t - lps[r]

\* firstOrder?.state === PREPARING && restaurant.lastPreparationStart
HeadIsPreparing(r) ==
    /\ queue[r] # <<>>
    /\ Exists(queue[r][1])
    /\ orders[queue[r][1]].state = PREPARING
    /\ lps[r] # NULL

\* waitingTime before rounding, in milliseconds (minutes * 60000)
waitingTime(orderId, t) ==
    LET r == orders[orderId].restaurant
        queuePosition == findIndex(queue[r], orderId)
        total == totalTime(SubSeq(queue[r], 1, queuePosition)) * MsPerMinute
    IN  IF queuePosition = 0 THEN 0
        ELSE IF HeadIsPreparing(r) THEN Max(total - Elapsed(r, t), 0)
        ELSE total

\* Math.round(waitingTime * 10) / 10: the reply, in tenths of a minute
RoundTenths(ms) == (20 * ms + MsPerMinute) \div (2 * MsPerMinute)

waitEstimation(orderId, t) == RoundTenths(waitingTime(orderId, t))

\* GET /estimate/:id; 404 without the order or its restaurant
WaitEstimation(orderId) ==
    /\ Exists(orderId)
    /\ orders[orderId].restaurant \in Restaurants
    /\ est' = [by |-> "waitEstimation", order |-> orderId, at |-> now,
               value |-> waitEstimation(orderId, now)]
    /\ UNCHANGED <<orders, nextId, queue, lps, menu, users, now, skipTx, adv, ord, deact, pick, gate, view, prepStart>>

\* -------------------------------------------------------- calculateWaitTime
\* restaurant.menu.find(item => item.dish === queuedOrder.dish): the entries
\* that match, of which find returns the first; undefined when there is none
MenuFind(m, dish) == SelectSeq(m, LAMBDA e : e.dish = dish)

\* the for loop over the populated queue, in milliseconds
RECURSIVE WaitLoop(_, _, _, _, _, _)
WaitLoop(q, index, acc, orderId, r, t) ==
    IF q = <<>> THEN acc
    ELSE LET queuedOrder == orders[Head(q)]
             menuItem == MenuFind(menu[r], queuedOrder.dish)
             own == menuItem[1].preparationTime * queuedOrder.amount * MsPerMinute
             next == IF index = 0 /\ queuedOrder.state = PREPARING /\ lps[r] # NULL
                     THEN acc + Max(own - Elapsed(r, t), 0)
                     ELSE acc + own
         IN  IF menuItem = <<>> THEN WaitLoop(Tail(q), index, acc, orderId, r, t)
             ELSE IF Head(q) = orderId THEN next
             ELSE WaitLoop(Tail(q), index + 1, next, orderId, r, t)

\* populate('queue') keeps the ids whose Order document exists
calculateWaitTime(orderId, t) ==
    LET r == orders[orderId].restaurant
    IN  WaitLoop(SelectSeq(queue[r], Exists), 0, 0, orderId, r, t)

CalculateWaitTime(orderId) ==
    /\ Exists(orderId)
    /\ orders[orderId].restaurant \in Restaurants
    /\ est' = [by |-> "calculateWaitTime", order |-> orderId, at |-> now,
               value |-> calculateWaitTime(orderId, now)]
    /\ UNCHANGED <<orders, nextId, queue, lps, menu, users, now, skipTx, adv, ord, deact, pick, gate, view, prepStart>>

\* ------------------------------------------------------------ specifications
\* request bodies of newOrder: one to MaxItems items
Bodies(items) == UNION {[1..n -> items] : n \in 1..MaxItems}

\* a request the customer's client sends; amount 0 fails the validator
\* (the client's checkout sends price: menuItem.price * amount)
RaceItems == {[restaurant |-> 1, dish |-> 1, amount |-> 1, price |-> MenuPrice],
              [restaurant |-> 3, dish |-> 1, amount |-> 1, price |-> MenuPrice],
              [restaurant |-> 1, dish |-> 1, amount |-> 0, price |-> 0]}
EstItems == {[restaurant |-> 1, dish |-> d, amount |-> a, price |-> MenuPrice * a] :
                d \in Dishes, a \in {1, 2}}

\* menus an owner sends to editMenu, which stores what it is sent: a dish
\* left out, a dish listed twice, a preparation time below the schema's minimum
Menus == {<<>>, <<MenuEntry(1, 1)>>, <<MenuEntry(1, 1), MenuEntry(2, 2)>>,
          <<MenuEntry(2, 1), MenuEntry(2, 2)>>, <<MenuEntry(1, -1)>>}

\* the orderId of an advanceQueue request: none, the id of an order that has
\* been placed (the owner has seen it), or an id no order has
OrderIdInputs == 0..(nextId - 1) \cup {MaxOrders + 1}

\* users of type owner: 1 and 2 own a restaurant, 3 owns none
Owners == {1, 2, 3}

\* handlers that are between two of their storage operations
InFlight ==
    Cardinality({c \in Calls : AdvRunning(c)})
    + (IF ord.pc = "idle" THEN 0 ELSE 1)
    + (IF deact.pc = "idle" THEN 0 ELSE 1)
    + (IF pick = NoPick THEN 0 ELSE 1)
    + (IF gate = NoGate THEN 0 ELSE 1)
    + (IF view = NoView THEN 0 ELSE 1)

MayStart == InFlight < MaxInFlight

Quiescent == InFlight = 0 /\ est = NoEst

\* Requests overlap: every interleaving of the storage steps of up to
\* MaxInFlight handlers.
Overlapping ==
    \/ \E c \in Calls, o \in OrderIdInputs : MayStart /\ AdvStart(c, 1, o)
    \/ \E c \in Calls : AdvFindOrder(c)
    \/ \E c \in Calls : AdvUpdate(c)
    \/ \E c \in Calls : AdvSetStart(c)
    \/ \E c \in Calls : AdvPull(c)
    \/ \E c \in Calls : AdvReturn(c)
    \/ \E cust \in Customers, o \in OrderIds : MayStart /\ confirmPickup(cust, o)
    \/ PickReturn
    \/ MayStart /\ DeactFind(1)
    \/ DeactPull
    \/ DeactDelete
    \/ \E u \in Owners : MayStart /\ getQueue(u)
    \/ ViewReturn

\* the default deployment: newOrder runs in a transaction
Next ==
    \/ Overlapping
    \/ \E cust \in Customers, body \in Bodies(RaceItems) : NewOrderTx(cust, body)

Spec == Init /\ [][Next]_vars

\* SKIP_TRANSACTIONS='true': newOrder writes item by item
NextSkip ==
    \/ Overlapping
    \/ \E cust \in Customers, body \in Bodies(RaceItems) : MayStart /\ NewOrderSeq(cust, body)
    \/ NewOrderSave
    \/ NewOrderPush

SpecSkip == InitSkip /\ [][NextSkip]_vars

\* Owners of either restaurant and a user of type owner who has none; orders
\* for both restaurants; requests overlap.
OwnItems == {[restaurant |-> 1, dish |-> 1, amount |-> 1, price |-> MenuPrice],
             [restaurant |-> 2, dish |-> 1, amount |-> 1, price |-> MenuPrice]}

NextOwn ==
    \/ \E c \in Calls, u \in Owners, o \in OrderIdInputs : MayStart /\ AdvStart(c, u, o)
    \/ \E c \in Calls : AdvFindOrder(c)
    \/ \E c \in Calls : AdvUpdate(c)
    \/ \E c \in Calls : AdvSetStart(c)
    \/ \E c \in Calls : AdvPull(c)
    \/ \E c \in Calls : AdvReturn(c)
    \/ \E body \in Bodies(OwnItems) : NewOrderTx(1, body)
    \/ \E o \in OrderIds : MayStart /\ confirmPickup(1, o)
    \/ PickReturn

SpecOwn == Init /\ [][NextOwn]_vars

\* Orders whose price field is what the checkout page computes, or another
\* number a client puts in the request body; one request at a time.
PriceItems ==
    UNION {{[restaurant |-> 1, dish |-> 1, amount |-> a, price |-> p] :
               p \in {MenuPrice * a, 1}} : a \in {1, 2}}

NextPrice ==
    \/ \E o \in OrderIdInputs : Quiescent /\ AdvStart(1, 1, o)
    \/ AdvFindOrder(1)
    \/ AdvUpdate(1)
    \/ AdvSetStart(1)
    \/ AdvPull(1)
    \/ AdvReturn(1)
    \/ \E body \in Bodies(PriceItems) : Quiescent /\ NewOrderTx(1, body)
    \/ \E m \in Menus : Quiescent /\ editMenu(1, m)

SpecPrice == Init /\ [][NextPrice]_vars

\* Requests come with no token, a bad token, an owner's token or a customer's
\* token and pass the route's middleware before the handler; one at a time.
Tokens == {NoToken, BadToken, [userId |-> 1, type |-> "owner"],
           [userId |-> 2, type |-> "customer"]}

NextGate ==
    \/ \E tok \in Tokens, route \in CustomerRoutes \cup OwnerRoutes :
           Quiescent /\ Rejected(route, tok)
    \/ GateReturn
    \/ \E tok \in Tokens, body \in Bodies(OwnItems) :
           Quiescent /\ Verdict("order", tok) = "next" /\ NewOrderTx(tok.userId, body)
    \/ \E tok \in Tokens, o \in OrderIds :
           Quiescent /\ Verdict("confirmpickup", tok) = "next" /\ confirmPickup(tok.userId, o)
    \/ PickReturn
    \/ \E tok \in Tokens, o \in OrderIdInputs :
           Quiescent /\ Verdict("order/update", tok) = "next" /\ AdvStart(1, tok.userId, o)
    \/ AdvFindOrder(1)
    \/ AdvUpdate(1)
    \/ AdvSetStart(1)
    \/ AdvPull(1)
    \/ AdvReturn(1)

SpecGate == Init /\ [][NextGate]_vars

\* the reply of an estimator has been sent
EstReply ==
    /\ est # NoEst
    /\ est' = NoEst
    /\ UNCHANGED <<orders, nextId, queue, lps, menu, users, now, skipTx, adv, ord, deact, pick, gate, view, prepStart>>

\* One request at a time, transactions enabled, the clock running, menus
\* edited, estimates asked.
NextEst ==
    \/ \E o \in OrderIdInputs : Quiescent /\ AdvStart(1, 1, o)
    \/ AdvFindOrder(1)
    \/ AdvUpdate(1)
    \/ AdvSetStart(1)
    \/ AdvPull(1)
    \/ AdvReturn(1)
    \/ \E body \in Bodies(EstItems) : Quiescent /\ NewOrderTx(1, body)
    \/ \E o \in OrderIds : Quiescent /\ confirmPickup(1, o)
    \/ PickReturn
    \/ Quiescent /\ Tick
    \/ \E m \in Menus : Quiescent /\ editMenu(1, m)
    \/ \E o \in OrderIds : Quiescent /\ WaitEstimation(o)
    \/ \E o \in OrderIds : Quiescent /\ CalculateWaitTime(o)
    \/ EstReply

SpecEst == Init /\ [][NextEst]_vars

\* ================================================================== claims
Running == {c \in Calls : adv[c].pc # "idle"}

\* C1: no restaurant's queue holds the id of an order that is ready or
\* completed, in any reachable state, the states between the two writes of an
\* advanceQueue call included.
C1_QueueHoldsNoReadyOrCompleted ==
    \A r \in Restaurants : \A i \in 1..Len(queue[r]) :
        Exists(queue[r][i]) => orders[queue[r][i]].state \notin {READY, COMPLETED}

\* C2: in every restaurant's queue at most one order is preparing, and if one
\* is, it is the entry at index 0.
C2_OnlyTheHeadPrepares ==
    \A r \in Restaurants :
        LET preparing == {i \in 1..Len(queue[r]) :
                             Exists(queue[r][i]) /\ orders[queue[r][i]].state = PREPARING}
        IN  Cardinality(preparing) <= 1 /\ preparing \subseteq {1}

\* C3: of two advanceQueue calls that both began while their common target was
\* received, exactly one performs a transition, the other ends with 409 or
\* without a transition, and the order is left preparing.
C3_OneTransitionPerPair ==
    \A c1, c2 \in Calls :
        ( /\ c1 # c2
          /\ adv[c1].pc = "done" /\ adv[c2].pc = "done"
          /\ adv[c1].target = adv[c2].target
          /\ adv[c1].issued = RECEIVED /\ adv[c2].issued = RECEIVED
          /\ adv[c1].did # "none" )
        => /\ adv[c2].did = "none"
           /\ Exists(adv[c1].target) => orders[adv[c1].target].state = PREPARING

\* C4: an order's state moves only received -> preparing -> ready -> completed,
\* one step at a time: the first two steps are taken by an advanceQueue call
\* on that order, the last by confirmPickup; a new order starts received and
\* a completed order never changes.
C4_LinearProgression ==
    [][\A o \in OrderIds :
          /\ (~Exists(o) /\ orders'[o] # NoOrder) => orders'[o].state = RECEIVED
          /\ (Exists(o) /\ orders'[o] # NoOrder /\ orders'[o].state # orders[o].state) =>
                \/ /\ <<orders[o].state, orders'[o].state>> \in
                          {<<RECEIVED, PREPARING>>, <<PREPARING, READY>>}
                   /\ \E c \in Calls : /\ adv[c].pc = "update"
                                        /\ adv[c].target = o
                                        /\ adv'[c].did = orders[o].state
                \/ /\ <<orders[o].state, orders'[o].state>> = <<READY, COMPLETED>>
                   /\ adv' = adv]_vars

\* an order has been taken through all three steps
C4_Witness == \E o \in OrderIds : Exists(o) /\ orders[o].state = COMPLETED

\* C5: with transactions enabled, every order a newOrder request creates is,
\* when the request returns, in the queue of the restaurant it names (and a
\* request that fails creates none).
C5_NewOrderAtomic ==
    [][nextId' > nextId =>
          \A id \in nextId..(nextId' - 1) :
              /\ orders'[id] # NoOrder
              /\ orders'[id].restaurant \in Restaurants
              /\ InSeq(queue'[orders'[id].restaurant], id)]_vars

\* C6: an advanceQueue call that moves its target from received to preparing
\* goes on to write lastPreparationStart if and only if the target is at
\* index 0 of the queue at the moment of that update.
C6_StartWrittenIffHeadAtUpdate ==
    [][\A c \in Calls :
          ( /\ adv[c].pc = "update"
            /\ adv[c].seen = RECEIVED
            /\ adv'[c].did = RECEIVED )
          => (adv'[c].pc = "setStart" <=> QueueHead(queue[adv[c].owner]) = adv[c].target)]_vars

\* ------------------------------------------------------- estimates, stated
\* clock readings an estimate can be asked at
Times == {k * TickMs : k \in 0..MaxTicks}

\* the head of r's queue is being prepared and its start time is on record
HeadBeingPrepared(r) ==
    /\ queue[r] # <<>>
    /\ Exists(queue[r][1])
    /\ orders[queue[r][1]].state = PREPARING
    /\ lps[r] # NULL

\* entries 0..i-1 of r's queue are orders on record whose dish is on r's menu
\* exactly once
Priced(r, i) ==
    \A k \in 1..i :
        /\ Exists(queue[r][k])
        /\ Cardinality({j \in 1..Len(menu[r]) :
                            menu[r][j].dish = orders[queue[r][k]].dish}) = 1

\* preparationTime(dish) x amount of the entry at one-based index k, milliseconds
Contribution(r, k) ==
    LET o == orders[queue[r][k]]
        j == CHOOSE j \in 1..Len(menu[r]) : menu[r][j].dish = o.dish
    IN  menu[r][j].preparationTime * o.amount * MsPerMinute

\* r's menu keeps to the schema: every preparation time is at least 1
ValidTimes(r) == \A j \in 1..Len(menu[r]) : menu[r][j].preparationTime >= 1

RECURSIVE SumTo(_, _)
SumTo(r, i) == IF i = 0 THEN 0 ELSE Contribution(r, i) + SumTo(r, i - 1)

\* C7: while the head is not being prepared, the estimate of the order at
\* zero-based position p is the sum of preparationTime x amount over entries
\* 0..p and of nothing after p; the reply's rounding to tenths leaves it as is.
C7_SumUpToPosition ==
    \A r \in Restaurants : \A i \in 1..Len(queue[r]) :
        (~HeadBeingPrepared(r) /\ Priced(r, i)) =>
            /\ waitingTime(queue[r][i], now) = SumTo(r, i)
            /\ waitEstimation(queue[r][i], now) * (MsPerMinute \div 10) = SumTo(r, i)
            /\ calculateWaitTime(queue[r][i], now) = SumTo(r, i)

\* the estimate of the first of two queued orders was asked for and is positive
C7_Witness ==
    /\ est.by = "waitEstimation"
    /\ Len(queue[1]) = 2
    /\ est.order = queue[1][1]
    /\ ~HeadBeingPrepared(1)
    /\ Priced(1, 2)
    /\ Contribution(1, 2) > 0
    /\ est.value > 0

\* C8: while the head is being prepared, the elapsed time is taken off the
\* head's contribution only, not below 0: the estimate of the order at position
\* p >= 1 is max(c0 - elapsed, 0) + c1 + ... + cp, so at least c1 + ... + cp
\* (stated for menus that keep to the schema).
C8_ElapsedOffHeadOnly ==
    \A r \in Restaurants : \A i \in 2..Len(queue[r]) :
        (HeadBeingPrepared(r) /\ Priced(r, i) /\ ValidTimes(r)) =>
            LET behind == SumTo(r, i) - Contribution(r, 1)
                expected == Max(Contribution(r, 1) - (now - lps[r]), 0) + behind
            IN  /\ waitingTime(queue[r][i], now) = expected
                /\ waitEstimation(queue[r][i], now) = RoundTenths(expected)
                /\ calculateWaitTime(queue[r][i], now) = expected
                /\ waitingTime(queue[r][i], now) >= behind

\* C9: the estimate of an order on record that is not in its restaurant's
\* queue is 0, from waitEstimation and from calculateWaitTime alike (stated
\* for menus that keep to the schema).
C9_NotQueuedIsZero ==
    \A o \in OrderIds :
        ( /\ Exists(o)
          /\ orders[o].restaurant \in Restaurants
          /\ ValidTimes(orders[o].restaurant)
          /\ ~InSeq(queue[orders[o].restaurant], o) )
        => /\ waitEstimation(o, now) = 0
           /\ calculateWaitTime(o, now) = 0

\* C10: with the queue, the order states, the menu and lastPreparationStart
\* held fixed, the estimate of an order does not grow with the clock and is
\* never negative.
C10_NonIncreasingNonNegative ==
    \A o \in OrderIds :
        (Exists(o) /\ orders[o].restaurant \in Restaurants) =>
            \A t1, t2 \in Times :
                t1 <= t2 => /\ waitEstimation(o, t2) <= waitEstimation(o, t1)
                            /\ waitingTime(o, t2) <= waitingTime(o, t1)
                            /\ waitEstimation(o, t1) >= 0

\* how many entries of r's menu are for the dish of the queue entry at index k
OnMenu(r, k) ==
    Cardinality({j \in 1..Len(menu[r]) : menu[r][j].dish = orders[queue[r][k]].dish})

\* entries 0..i-1 of r's queue are orders on record, none has its dish on the
\* menu twice, and at least one has a dish that is not on the menu
SomeDishMissing(r, i) ==
    /\ \A k \in 1..i : Exists(queue[r][k]) /\ OnMenu(r, k) <= 1
    /\ \E k \in 1..i : OnMenu(r, k) = 0

\* the contribution of entry k, 0 when its dish is not on the menu
ContributionOr0(r, k) == IF OnMenu(r, k) = 0 THEN 0 ELSE Contribution(r, k)

RECURSIVE SumOr0(_, _)
SumOr0(r, i) == IF i = 0 THEN 0 ELSE ContributionOr0(r, i) + SumOr0(r, i - 1)

\* the estimate the order at index i is due: entries 0..i-1, a missing dish
\* counted as 0, the elapsed time taken off entry 0 alone
DueWithMissing(r, i) ==
    IF HeadBeingPrepared(r)
    THEN Max(ContributionOr0(r, 1) - (now - lps[r]), 0) + SumOr0(r, i) - ContributionOr0(r, 1)
    ELSE SumOr0(r, i)

\* C11: when an entry at or ahead of the queried order has a dish that is not
\* on the menu, both estimators still answer, with that entry counted as 0,
\* the other entries up to the queried one counted as before, nothing after it
\* counted, and the elapsed time taken off the entry at index 0 only (stated
\* for menus that keep to the schema).
C11_MissingDishCountsZero ==
    \A r \in Restaurants : \A i \in 1..Len(queue[r]) :
        (SomeDishMissing(r, i) /\ ValidTimes(r)) =>
            /\ waitingTime(queue[r][i], now) = DueWithMissing(r, i)
            /\ calculateWaitTime(queue[r][i], now) = DueWithMissing(r, i)

\* C12: an advanceQueue call without an orderId targets the order at index 0
\* of the caller's queue as the call reads it; on an empty queue it ends at
\* once with success, having changed no order, no queue and no
\* lastPreparationStart, and it takes no further step but its reply.
C12_NoOrderIdTargetsHead ==
    [][\A c \in Calls :
          /\ (adv[c].pc = "idle" /\ adv'[c].pc # "idle" /\ adv'[c].orderId = NoId) =>
                LET q == queue[adv'[c].owner]
                IN  IF q = <<>>
                    THEN /\ adv'[c].pc = "done"
                         /\ adv'[c].status = 200
                         /\ adv'[c].did = "none"
                         /\ UNCHANGED <<orders, queue, lps>>
                    ELSE adv'[c].target = q[1] /\ adv'[c].pc = "findOrder"
          /\ (adv[c].pc = "done" /\ adv'[c] # adv[c]) =>
                adv'[c].pc = "idle" /\ UNCHANGED <<orders, queue, lps>>]_vars

\* a call without an orderId has found the queue empty and been answered
C12_Witness ==
    \E c \in Calls : /\ adv[c].pc = "done"
                      /\ adv[c].orderId = NoId
                      /\ adv[c].msg = "Queue is empty."

\* C13: a step of an advanceQueue call changes only orders of the caller's
\* restaurant and only that restaurant's queue and lastPreparationStart; a
\* caller who owns no restaurant, and a call whose target is not on record or
\* is of another restaurant, is answered 404 in a step that changes none of
\* them, without having moved any order.
C13_OnlyOwnRestaurant ==
    [][\A c \in Calls :
          /\ (adv[c].pc \notin {"idle", "done"} /\ adv'[c] # adv[c]) =>
                /\ \A o \in OrderIds :
                      orders'[o] # orders[o] => orders[o].restaurant = adv[c].owner
                /\ \A r \in Restaurants :
                      (queue'[r] # queue[r] \/ lps'[r] # lps[r]) => r = adv[c].owner
          /\ (adv[c].pc = "idle" /\ adv'[c].pc # "idle") =>
                /\ UNCHANGED <<orders, queue, lps>>
                /\ adv'[c].owner \notin Restaurants =>
                      adv'[c].pc = "done" /\ adv'[c].status = 404
          /\ ( /\ adv[c].pc = "findOrder"
               /\ adv'[c] # adv[c]
               /\ \/ adv[c].target \notin OrderIds
                  \/ orders[adv[c].target] = NoOrder
                  \/ orders[adv[c].target].restaurant # adv[c].owner ) =>
                /\ adv'[c].pc = "done"
                /\ adv'[c].status = 404
                /\ adv'[c].did = "none"
                /\ UNCHANGED <<orders, queue, lps>>]_vars

\* a call on an order of another restaurant has been answered 404 and the
\* order is as it was placed
C13_Witness ==
    \E c \in Calls : /\ adv[c].pc = "done"
                      /\ adv[c].status = 404
                      /\ adv[c].msg = "Order not found in this restaurant."
                      /\ Exists(adv[c].target)
                      /\ orders[adv[c].target].state = RECEIVED

\* C14: an advanceQueue call whose target is ready or completed, when the call
\* begins or when it reads the order, performs no transition: no step of it
\* changes an order, a queue or lastPreparationStart.
C14_ReadyOrCompletedUntouched ==
    [][\A c \in Calls :
          /\ ( /\ adv'[c] # adv[c]
               /\ \/ adv[c].issued \in {READY, COMPLETED}
                  \/ adv'[c].issued \in {READY, COMPLETED} ) =>
                adv'[c].did = "none" /\ UNCHANGED <<orders, queue, lps>>
          /\ ( /\ adv[c].pc = "findOrder"
               /\ adv'[c] # adv[c]
               /\ adv[c].target \in OrderIds
               /\ orders[adv[c].target] # NoOrder
               /\ orders[adv[c].target].state \in {READY, COMPLETED} ) =>
                /\ adv'[c].pc = "done"
                /\ adv'[c].did = "none"
                /\ UNCHANGED <<orders, queue, lps>>]_vars

\* a call on an order that was ready or completed has been answered
C14_Witness ==
    \E c \in Calls : /\ adv[c].pc = "done"
                      /\ adv[c].issued \in {READY, COMPLETED}
                      /\ adv[c].status = 200
                      /\ Exists(adv[c].target)
                      /\ orders[adv[c].target].state = adv[c].issued

\* C15: a call on an order that is already ready or completed is never
\* answered with the success a call that moved an order gets, 200 'Queue
\* advanced successfully.'.
C15_NoSuccessWithoutAdvance ==
    \A c \in Calls :
        (adv[c].pc = "done" /\ adv[c].issued \in {READY, COMPLETED}) =>
            ~(adv[c].status = 200 /\ adv[c].msg = "Queue advanced successfully.")

C17_PriceFromMenu ==
    [][\A id \in OrderIds :
          (orders[id] = NoOrder /\ orders'[id] # NoOrder) =>
              LET r == orders'[id].restaurant
                  hits == {j \in 1..Len(menu[r]) : menu[r][j].dish = orders'[id].dish}
              IN  Cardinality(hits) = 1 =>
                      \A j \in hits :
                          orders'[id].price = menu[r][j].price * orders'[id].amount]_vars

\* C18: a request without a valid token is answered 401 and one with the
\* wrong role is turned away, and such a request changes no order, queue or
\* lastPreparationStart; every order is placed and every pickup confirmed by a
\* user whose token says customer, every advanceQueue call runs for a user
\* whose token says owner.
C18_RoleGating ==
    [][/\ \A tok \in Tokens, route \in CustomerRoutes \cup OwnerRoutes :
             /\ tok.type \in {"none", "invalid"} => Verdict(route, tok) = "401"
             /\ (route \in CustomerRoutes /\ tok.type = "owner") =>
                    Verdict(route, tok) \notin {"next", "401"}
             /\ (route \in OwnerRoutes /\ tok.type = "customer") =>
                    Verdict(route, tok) \notin {"next", "401"}
       /\ (gate = NoGate /\ gate' # NoGate) =>
             UNCHANGED <<orders, queue, lps, adv, pick, nextId>>
       /\ \A id \in OrderIds :
             (orders[id] = NoOrder /\ orders'[id] # NoOrder) =>
                 \E tok \in Tokens : tok.type = "customer"
                                      /\ tok.userId = orders'[id].customer
       /\ (pick = NoPick /\ pick' # NoPick) =>
             \E tok \in Tokens : tok.type = "customer" /\ tok.userId = pick'.customer
       /\ \A c \in Calls :
             (adv[c].pc = "idle" /\ adv'[c].pc # "idle") =>
                 \E tok \in Tokens : tok.type = "owner"
                                      /\ tok.userId = adv'[c].owner]_vars

\* a customer's advanceQueue request on a queued order has been turned away
C18_Witness ==
    /\ gate.route = "order/update"
    /\ gate.token.type = "customer"
    /\ gate.status = "away"
    /\ queue[1] # <<>>
    /\ orders[queue[1][1]].state = RECEIVED

\* C19: no queue holds the same order id twice, and an order id is only in
\* the queue of the restaurant the order references.
C19_QueuedOnceInOwnQueue ==
    \A r \in Restaurants :
        \A i \in 1..Len(queue[r]) :
            /\ \A j \in 1..Len(queue[r]) : j # i => queue[r][j] # queue[r][i]
            /\ \A r2 \in Restaurants : r2 # r => ~InSeq(queue[r2], queue[r][i])
            /\ (queue[r][i] \in OrderIds /\ orders[queue[r][i]] # NoOrder) =>
                   orders[queue[r][i]].restaurant = r

\* both restaurants have orders queued
C19_Witness == Len(queue[1]) >= 1 /\ Len(queue[2]) >= 1

\* the one-based index of x in s, 0 when it is not there
IndexIn(s, x) == IF InSeq(s, x) THEN CHOOSE i \in 1..Len(s) : s[i] = x ELSE 0

\* C20: a queue is never reordered: two ids that are in a restaurant's queue
\* before and after a step keep their order, an id that enters a queue was
\* in no queue and stands behind every id already there, which all stay, and
\* so a stands before b exactly when a was enqueued before b (ids are handed
\* out in the order of the enqueues, so a queue is sorted by id).
C20_QueueIsFifo ==
    [][\A r \in Restaurants :
          /\ \A a, b \in OrderIds :
                ( /\ InSeq(queue[r], a) /\ InSeq(queue[r], b)
                  /\ InSeq(queue'[r], a) /\ InSeq(queue'[r], b) ) =>
                    (IndexIn(queue'[r], a) < IndexIn(queue'[r], b)
                        <=> IndexIn(queue[r], a) < IndexIn(queue[r], b))
          /\ \A b \in OrderIds :
                (InSeq(queue'[r], b) /\ ~InSeq(queue[r], b)) =>
                    /\ \A q \in Restaurants : ~InSeq(queue[q], b)
                    /\ \A a \in OrderIds :
                          InSeq(queue[r], a) =>
                              /\ InSeq(queue'[r], a)
                              /\ IndexIn(queue'[r], a) < IndexIn(queue'[r], b)
          /\ \A i, j \in 1..Len(queue'[r]) :
                i < j => queue'[r][i] < queue'[r][j]]_vars

\* two orders have queued one after the other and the second has been
\* promoted while still behind the first
C20_Witness ==
    /\ Len(queue[1]) = 2
    /\ Exists(queue[1][1]) /\ Exists(queue[1][2])
    /\ orders[queue[1][1]].state = RECEIVED
    /\ orders[queue[1][2]].state = PREPARING
    /\ nextId > 2

\* C21: no restaurant's queue references an order record that does not exist,
\* in any reachable state, also when newOrder or advanceQueue calls interleave
\* with a customer's deactivation.
C21_QueueReferencesExistingOrders ==
    \A r \in Restaurants : \A i \in 1..Len(queue[r]) : Exists(queue[r][i])

\* C22: an order in state completed is never deleted: no step removes the
\* record of an order that is completed when the step is taken, also when
\* confirmPickup runs between the steps of a deactivation.
C22_CompletedNeverDeleted ==
    [][\A o \in OrderIds :
          (Exists(o) /\ orders[o].state = COMPLETED) => orders'[o] # NoOrder]_vars

\* C23: the two estimators agree: for every queued order whose queue, up to
\* the order, holds orders on record with a dish that is on the menu once and
\* with valid preparation times, and for every clock value from now on,
\* calculateWaitTime and waitEstimation's value before rounding are the same.
C23_EstimatorsAgree ==
    \A o \in OrderIds :
        ( /\ Exists(o)
          /\ orders[o].restaurant \in Restaurants
          /\ InSeq(queue[orders[o].restaurant], o)
          /\ ValidTimes(orders[o].restaurant)
          /\ Priced(orders[o].restaurant, findIndex(queue[orders[o].restaurant], o)) )
        => \A t \in Times : t >= now => calculateWaitTime(o, t) = waitingTime(o, t)

\* C24: an advanceQueue call whose conditional update matches no order (the
\* stored state is no longer the one the call read) ends with 409 and writes
\* nothing: that step and the sending of the reply leave every order, every
\* queue and every lastPreparationStart as they were, and the call goes on
\* neither to the write of lastPreparationStart nor to the $pull.
C24_ConflictChangesNothing ==
    [][\A c \in Calls :
          /\ ( /\ adv[c].pc = "update"
               /\ adv'[c] # adv[c]
               /\ ~(Exists(adv[c].target) /\ orders[adv[c].target].state = adv[c].seen) )
             => /\ adv'[c].pc = "done"
                /\ adv'[c].status = 409
                /\ adv'[c].did = "none"
                /\ UNCHANGED <<orders, queue, lps>>
          /\ (adv[c].status = 409 /\ adv'[c] # adv[c])
             => /\ adv'[c] = AdvIdle
                /\ UNCHANGED <<orders, queue, lps>>]_vars

\* a call has lost against another call on the same order, which moved it
C24_Witness ==
    \E c, w \in Calls :
        /\ c # w
        /\ adv[c].pc = "done" /\ adv[c].status = 409
        /\ adv[w].target = adv[c].target /\ adv[w].did # "none"

\* C25: in every reachable state a dish appears at most once in each
\* restaurant's menu, whatever newMenu editMenu has accepted.
C25_DishOncePerMenu ==
    \A r \in Restaurants : \A i, j \in 1..Len(menu[r]) :
        menu[r][i].dish = menu[r][j].dish => i = j

\* C26: whenever the order at index 0 of a restaurant's queue is preparing
\* (and no advanceQueue call is between two of its writes),
\* lastPreparationStart is non-null and is the time at which that very order
\* was moved from received to preparing.
C26_StartIsTheHeadsOwn ==
    \A r \in Restaurants :
        ( /\ \A c \in Calls : adv[c].pc \in {"idle", "done"}
          /\ queue[r] # <<>>
          /\ Exists(queue[r][1])
          /\ orders[queue[r][1]].state = PREPARING )
        => /\ lps[r] # NULL
           /\ lps[r] = prepStart[queue[r][1]]

\* C27: once no newOrder, advanceQueue or deactivation call is in progress,
\* every order on record that is received or preparing is in the queue of the
\* restaurant it references, an order whose restaurant id matches no
\* restaurant included.
C27_PlacedOrdersAreQueued ==
    ( /\ ord.pc = "idle"
      /\ deact.pc = "idle"
      /\ \A c \in Calls : adv[c].pc = "idle" )
    => \A o \in OrderIds :
          (Exists(o) /\ orders[o].state \in {RECEIVED, PREPARING})
          => /\ orders[o].restaurant \in Restaurants
             /\ InSeq(queue[orders[o].restaurant], o)

\* C28: progress of the head: in no reachable state with a non-empty queue
\* and no handler between two of its writes is an advanceQueue call without
\* an orderId a 404 or a no-op: the head is an order on record, of this
\* restaurant, received or preparing, so the call moves it one step on.
C28_HeadCanAdvance ==
    \A r \in Restaurants :
        ( /\ ord.pc = "idle"
          /\ deact.pc = "idle"
          /\ \A c \in Calls : adv[c].pc = "idle"
          /\ queue[r] # <<>> )
        => /\ Belongs(QueueHead(queue[r]), r)
           /\ Advanceable(orders[QueueHead(queue[r])].state)

\* C29: the queue getQueue shows to the owner lists exactly the order ids of
\* Restaurant.queue, in the same order, whenever it is asked while no
\* newOrder, advanceQueue or deactivation call is between two of its writes.
C29_ViewIsTheQueue ==
    [][( /\ view = NoView
         /\ view' # NoView
         /\ view'.status = 200
         /\ ord.pc = "idle"
         /\ deact.pc = "idle"
         /\ \A c \in Calls : adv[c].pc = "idle" )
       => view'.queue = queue[view'.owner]]_vars

====
